---------------------------- MODULE Spec2Model ----------------------------
(***************************************************************************)
(* Model of the Framework Service Completion extension                     *)
(* (src/src/extension.ts): the workspace scanner that fills                *)
(* frameworkIndex, and the completion provider with its import detector    *)
(* and edit synthesizer.                                                   *)
(*                                                                         *)
(* Strings are sequences of one-character strings, so that the regular     *)
(* expressions, split/join/slice and toLowerCase of the source are         *)
(* computed character by character.  Line and column numbers are the       *)
(* 0-based numbers of the editor; sequence indexes are 1-based.            *)
(***************************************************************************)
EXTENDS Integers, Sequences, FiniteSets, TLC

(***************************************************************************)
(* Bounds of the model.                                                    *)
(***************************************************************************)
\* scans started in one behaviour (activation, workspace changes, rescans)
MaxScans == 2
\* files one enumeration returns
MaxFiles == 2
\* candidates accepted into one document
MaxAccepts == 2

(***************************************************************************)
(* Characters and strings.                                                 *)
(***************************************************************************)
UpperAlpha == <<"A","B","C","D","E","F","G","H","I","J","K","L","M","N","O","P","Q","R","S","T","U","V","W","X","Y","Z">>
LowerAlpha == <<"a","b","c","d","e","f","g","h","i","j","k","l","m","n","o","p","q","r","s","t","u","v","w","x","y","z">>
DigitChars == <<"0","1","2","3","4","5","6","7","8","9">>

Range(s) == {s[i] : i \in DOMAIN s}

\* \w of a JavaScript regular expression: [A-Za-z0-9_]
IsWordChar(c) == c \in Range(UpperAlpha) \cup Range(LowerAlpha) \cup Range(DigitChars) \cup {"_"}

\* \s of a JavaScript regular expression (the ASCII part)
IsSpace(c) == c \in {" ", "\t", "\n", "\r", "\f"}

\* String.prototype.toLowerCase, one character
ToLowerChar(c) ==
  IF \E i \in DOMAIN UpperAlpha : UpperAlpha[i] = c
  THEN LowerAlpha[CHOOSE i \in DOMAIN UpperAlpha : UpperAlpha[i] = c]
  ELSE c

\* String.prototype.toLowerCase
ToLowerCase(s) == [i \in DOMAIN s |-> ToLowerChar(s[i])]

\* the literal lit stands in s at index i (1-based)
LitAt(s, i, lit) ==
  /\ i >= 1
  /\ i + Len(lit) - 1 <= Len(s)
  /\ SubSeq(s, i, i + Len(lit) - 1) = lit

\* String.prototype.includes
Includes(s, sub) == \E i \in 1..(Len(s) + 1) : LitAt(s, i, sub)

\* Array.prototype.includes
ArrayIncludes(arr, x) == \E i \in DOMAIN arr : arr[i] = x

\* Array.prototype.indexOf, 1-based; 0 when absent
ArrayIndexOf(arr, x) ==
  IF ArrayIncludes(arr, x)
  THEN CHOOSE i \in DOMAIN arr : arr[i] = x /\ \A j \in 1..(i - 1) : arr[j] # x
  ELSE 0

\* index of the first character at or after i that \s does not match
\* (Len(s) + 1 when there is none): where a greedy \s* or \s+ ends
SkipSpace(s, i) ==
  CHOOSE j \in i..(Len(s) + 1) :
    /\ \A k \in i..(j - 1) : IsSpace(s[k])
    /\ j = Len(s) + 1 \/ ~IsSpace(s[j])

\* String.prototype.split(sep) for a one-character separator
RECURSIVE Split(_, _)
Split(s, sep) ==
  IF \A i \in DOMAIN s : s[i] # sep
  THEN <<s>>
  ELSE LET i == CHOOSE k \in DOMAIN s : s[k] = sep /\ \A j \in 1..(k - 1) : s[j] # sep
       IN  <<SubSeq(s, 1, i - 1)>> \o Split(SubSeq(s, i + 1, Len(s)), sep)

\* Array.prototype.join(sep)
RECURSIVE Join(_, _)
Join(arr, sep) ==
  IF Len(arr) = 0 THEN <<>>
  ELSE IF Len(arr) = 1 THEN arr[1]
  ELSE arr[1] \o sep \o Join(Tail(arr), sep)

sClient == <<"C","l","i","e","n","t">>
sServer == <<"S","e","r","v","e","r">>
sUnknown == <<"U","n","k","n","o","w","n">>
sLuaExt == <<".","l","u","a">>

(***************************************************************************)
(* The workspace: the files an enumeration of                              *)
(* {src/Client/**/[SC]_*.lua,src/Server/**/[SC]_*.lua} can return, as      *)
(* absolute paths (uri.fsPath) under the workspace folders.                *)
(***************************************************************************)
pathSep == <<"/">>

\* the folders of the workspace, which the pattern is relative to
WorkspaceFolders == { <<"/","w">>, <<"/","S","e","r","v","e","r","/","p">> }

WorkspaceFiles ==
  { <<"/","w","/","s","r","c","/","C","l","i","e","n","t","/","U","I","/","C","_","G","r","i","d",".","l","u","a">>,
    <<"/","w","/","s","r","c","/","S","e","r","v","e","r","/","S","_","G","r","i","d",".","l","u","a">>,
    <<"/","w","/","s","r","c","/","C","l","i","e","n","t","/","C","_","L","o","g",".","l","u","a">>,
    <<"/","w","/","s","r","c","/","S","e","r","v","e","r","/","C","l","i","e","n","t","/","S","_","N","e","t",".","l","u","a">>,
    <<"/","w","/","s","r","c","/","S","e","r","v","e","r","/","S","_",".","l","u","a">>,
    <<"/","S","e","r","v","e","r","/","p","/","s","r","c","/","S","e","r","v","e","r","/","D","b","/","S","_","D","b",".","l","u","a">>,
    <<"/","w","/","s","r","c","/","C","l","i","e","n","t","/","C","_","G","r","i","d","(","2",")",".","l","u","a">> }

\* sequences without repetition of at most n elements of S
RECURSIVE SeqsUpTo(_, _)
SeqsUpTo(S, n) ==
  IF n = 0 THEN {<<>>}
  ELSE LET shorter == SeqsUpTo(S, n - 1)
       IN  shorter \cup
           {Append(q, x) : <<q, x>> \in
              {p \in shorter \X S : Len(p[1]) = n - 1 /\ ~ArrayIncludes(p[1], p[2])}}

\* what vscode.workspace.findFiles can resolve to
Enumerations == SeqsUpTo(WorkspaceFiles, MaxFiles)

(***************************************************************************)
(* scanFramework: the body of the loop, one uri.                           *)
(***************************************************************************)
\* fullName.replace(/^[SC]_(.+)\.lua$/, '$1')
ModuleName(fullName) ==
  IF /\ Len(fullName) >= 2 + 1 + Len(sLuaExt)
     /\ fullName[1] \in {"S", "C"}
     /\ fullName[2] = "_"
     /\ LitAt(fullName, Len(fullName) - Len(sLuaExt) + 1, sLuaExt)
  THEN SubSeq(fullName, 3, Len(fullName) - Len(sLuaExt))
  ELSE fullName

\* isClient ? 'Client' : 'Server'
ScanFolder(parts) == IF ArrayIncludes(parts, sClient) THEN sClient ELSE sServer

\* parts.slice(folderIndex + 1, -1).join('.')
ScanSubFolder(parts) ==
  LET folderIndex == ArrayIndexOf(parts, ScanFolder(parts))
  IN  Join(SubSeq(parts, folderIndex + 1, Len(parts) - 1), <<".">>)

\* the ModuleDef pushed for uri
ModuleDefOf(uri) ==
  LET parts == Split(uri, pathSep[1])
      fullName == parts[Len(parts)]
  IN  [ name      |-> ModuleName(fullName),
        folder    |-> ScanFolder(parts),
        subFolder |-> ScanSubFolder(parts),
        fullName  |-> fullName,
        uri       |-> uri ]

\* the condition under which a uri is indexed
IsIndexed(uri) ==
  LET parts == Split(uri, pathSep[1])
  IN  (ArrayIncludes(parts, sClient) \/ ArrayIncludes(parts, sServer)) /\ Len(parts) >= 2

\* the for loop of scanFramework: the entries pushed, in order, for files
RECURSIVE IndexFiles(_)
IndexFiles(files) ==
  IF files = <<>> THEN <<>>
  ELSE (IF IsIndexed(Head(files)) THEN <<ModuleDefOf(Head(files))>> ELSE <<>>)
       \o IndexFiles(Tail(files))

(***************************************************************************)
(* Documents: a file path (document.uri.fsPath) and the lines of the text. *)
(***************************************************************************)
Docs ==
  << [ fsPath |-> <<"/","w","/","s","r","c","/","C","l","i","e","n","t","/","M","a","i","n",".","l","u","a">>,
       lines  |-> << <<"l","o","c","a","l"," ","F","r","a","m","e","w","o","r","k","O","b","j","e","c","t","=","0">>,
                     <<"f","u","n","c","t","i","o","n"," ","m","o","d","u","l","e",".","I","n","i","t","(",")">>,
                     <<" "," ","a","u","t","o",".","G","r">> >> ],
     [ fsPath |-> <<"/","w","/","s","r","c","/","C","l","i","e","n","t","/","B","o","o","t",".","l","u","a">>,
       lines  |-> << <<"a","u","t","o",".">>,
                     <<"f","u","n","c","t","i","o","n"," ","m","o","d","u","l","e",".","I","n","i","t","(",")">> >> ],
     [ fsPath |-> <<"/","w","/","s","r","c","/","S","e","r","v","e","r","/","M","a","i","n",".","l","u","a">>,
       lines  |-> << <<"l","o","c","a","l"," ","G","r","i","d",":"," ","G","r","i","d","T","y","p","e">>,
                     <<"a","u","t","o",".","G","R">> >> ],
     [ fsPath |-> <<"/","w","/","s","r","c","/","C","l","i","e","n","t","/","H","u","d",".","l","u","a">>,
       lines  |-> << <<"d","o"," ","l","o","c","a","l"," ","G","r","i","d",":"," ","T"," ","e","n","d">>,
                     <<"a","u","t","o",".","g","r","i","d">> >> ],
     [ fsPath |-> <<"/","w","/","l","i","b","/","U","t","i","l",".","l","u","a">>,
       lines  |-> << <<"a","u","t","o",".","L","o","g">>,
                     <<>>,
                     <<" ","f","u","n","c","t","i","o","n"," "," ","m","o","d","u","l","e",".","I","n","i","t">> >> ],
     [ fsPath |-> <<"/","w","/","s","r","c","/","C","l","i","e","n","t","/","S","e","r","v","e","r","L","i","s","t",".","l","u","a">>,
       lines  |-> << <<"a","u","t","o",".">> >> ],
     [ fsPath |-> <<"/","w","/","s","r","c","/","S","e","r","v","e","r","/","J","o","b","s",".","l","u","a">>,
       lines  |-> << <<"-","-"," ","x">>,
                     <<"\t">> \o <<"l","o","c","a","l"," "," ","F","r","a","m","e","w","o","r","k","O","b","j","e","c","t"," ","=","1">>,
                     <<"a","u","t","o",".","x","y","z">> >> ],
     [ fsPath |-> <<"/","w","/","s","r","c","/","C","l","i","e","n","t","/","N","e","t",".","l","u","a">>,
       lines  |-> << <<"l","o","c","a","l">>,
                     <<"N","e","t","T","y","p","e"," ",":">>,
                     <<"a","u","t","o",".","e">> >> ],
     [ fsPath |-> <<"/","w","/","s","r","c","/","C","l","i","e","n","t","/","S","h","o","p",".","l","u","a">>,
       lines  |-> << <<"f","u","n","c","t","i","o","n"," ","m","o","d","u","l","e",".","I","n","i","t","(",")">>,
                     <<" "," "," "," ","G","r","i","d"," ","="," ","F","r","a","m","e","w","o","r","k",".","U","I",".","G","r","i","d">>,
                     <<"a","u","t","o",".">> >> ],
     [ fsPath |-> <<"/","w","/","s","r","c","/","C","l","i","e","n","t","/","C","a","r","t",".","l","u","a">>,
       lines  |-> << <<"l","o","c","a","l"," ","L","o","g","T","y","p","e"," ","="," ","t","y","p","e","o","f","(","r","e","q","u","i","r","e","(","F","r","a","m","e","w","o","r","k","O","b","j","e","c","t",".","C","_","L","o","g",")",")">>,
                     <<"a","u","t","o",".","l","o">> >> ] >>

\* document.getText()
GetText(document) == Join(document.lines, <<"\n">>)

\* the cursor positions of a document: a line and a column of it
Positions(document) ==
  UNION { { [line |-> l, character |-> c] : c \in 0..Len(document.lines[l + 1]) } :
            l \in 0..(Len(document.lines) - 1) }

(***************************************************************************)
(* isServiceAlreadyImported                                                *)
(***************************************************************************)
sLocal == <<"l","o","c","a","l">>
sType == <<"T","y","p","e">>

\* a character of ident that, spliced into the source of a regular
\* expression, matches a character: "(" and ")" open and close a group and
\* match nothing themselves
IsAtom(c) == c \notin {"(", ")"}

\* what ident is as a piece of a regular expression: its atoms in a row (the
\* names of the model have their parentheses balanced and no quantifier nor
\* alternative, so a group matches what its atoms match)
IdentAtoms(ident) == SelectSeq(ident, IsAtom)

\* ident, spliced into the source of a regular expression, matches text from
\* index i: a "." of ident matches any character but a line terminator, the
\* letters, digits and "_" of ident match themselves
IdentAt(text, i, ident) ==
  LET atoms == IdentAtoms(ident)
  IN  /\ i >= 1
      /\ i + Len(atoms) - 1 <= Len(text)
      /\ \A k \in DOMAIN atoms :
           IF atoms[k] = "." THEN text[i + k - 1] \notin {"\n", "\r"}
           ELSE text[i + k - 1] = atoms[k]

\* local\s+<ident>\s*: matches text from index i
DeclarationAt(text, i, ident) ==
  LET afterLocal == i + Len(sLocal)
      identAt == SkipSpace(text, afterLocal)
      colonAt == SkipSpace(text, identAt + Len(IdentAtoms(ident)))
  IN  /\ LitAt(text, i, sLocal)
      /\ afterLocal <= Len(text)
      /\ identAt > afterLocal
      /\ IdentAt(text, identAt, ident)
      /\ colonAt <= Len(text)
      /\ text[colonAt] = ":"

\* new RegExp(`local\\s+${ident}\\s*:`).test(text)
RegexTest(text, ident) == \E i \in 1..Len(text) : DeclarationAt(text, i, ident)

isServiceAlreadyImported(document, serviceName) ==
  LET text == GetText(document)
  IN  RegexTest(text, serviceName \o sType) \/ RegexTest(text, serviceName)

(***************************************************************************)
(* makeAdditionalEdits                                                     *)
(***************************************************************************)
sFrameworkObject == <<"F","r","a","m","e","w","o","r","k","O","b","j","e","c","t">>
sFramework == <<"F","r","a","m","e","w","o","r","k">>
sFunction == <<"f","u","n","c","t","i","o","n">>
sModuleInit == <<"m","o","d","u","l","e",".","I","n","i","t">>

\* doc.getText().split(/\r?\n/)
SplitLines(text) ==
  LET pieces == Split(text, "\n")
  IN  [ i \in DOMAIN pieces |->
          IF i < Len(pieces) /\ Len(pieces[i]) > 0 /\ pieces[i][Len(pieces[i])] = "\r"
          THEN SubSeq(pieces[i], 1, Len(pieces[i]) - 1)
          ELSE pieces[i] ]

\* /^\s*local\s+FrameworkObject\s*=/.test(line)
IsFrameworkObjectLine(line) ==
  LET localAt == SkipSpace(line, 1)
      afterLocal == localAt + Len(sLocal)
      nameAt == SkipSpace(line, afterLocal)
      equalsAt == SkipSpace(line, nameAt + Len(sFrameworkObject))
  IN  /\ LitAt(line, localAt, sLocal)
      /\ afterLocal <= Len(line)
      /\ nameAt > afterLocal
      /\ LitAt(line, nameAt, sFrameworkObject)
      /\ equalsAt <= Len(line)
      /\ line[equalsAt] = "="

\* /^\s*function\s+module\.Init/.test(line)
IsModuleInitLine(line) ==
  LET functionAt == SkipSpace(line, 1)
      afterFunction == functionAt + Len(sFunction)
      nameAt == SkipSpace(line, afterFunction)
  IN  /\ LitAt(line, functionAt, sFunction)
      /\ afterFunction <= Len(line)
      /\ nameAt > afterFunction
      /\ LitAt(line, nameAt, sModuleInit)

Min(S) == CHOOSE x \in S : \A y \in S : x <= y

\* 0-based numbers of the lines that are FrameworkObject anchors
FrameworkObjectLines(text) == {i \in 0..(Len(text) - 1) : IsFrameworkObjectLine(text[i + 1])}

\* 0-based numbers of the lines that are module.Init anchors
ModuleInitLines(text) == {i \in 0..(Len(text) - 1) : IsModuleInitLine(text[i + 1])}

\* let topLine = 0; for ... if (match) { topLine = i; break; }
TopLine(text) ==
  IF FrameworkObjectLines(text) = {} THEN 0 ELSE Min(FrameworkObjectLines(text))

\* let initLine = -1; for ... if (match) { initLine = i; break; }
InitLine(text) ==
  IF ModuleInitLines(text) = {} THEN -1 ELSE Min(ModuleInitLines(text))

\* def.fullName.replace(/\.lua$/, '')
StripLua(fullName) ==
  IF LitAt(fullName, Len(fullName) - Len(sLuaExt) + 1, sLuaExt)
  THEN SubSeq(fullName, 1, Len(fullName) - Len(sLuaExt))
  ELSE fullName

TypePath(def) ==
  IF def.subFolder # <<>>
  THEN sFrameworkObject \o <<".">> \o def.subFolder \o <<".">> \o StripLua(def.fullName)
  ELSE sFrameworkObject \o <<".">> \o StripLua(def.fullName)

AssignPath(def) ==
  IF def.subFolder # <<>>
  THEN sFramework \o <<".">> \o def.subFolder \o <<".">> \o def.name
  ELSE sFramework \o <<".">> \o def.name

\* `local ${def.name}Type = typeof(require(${typePath}))`
AliasLine(def) ==
  sLocal \o <<" ">> \o def.name \o sType \o <<" ","="," ","t","y","p","e","o","f","(","r","e","q","u","i","r","e","(">> \o TypePath(def) \o <<")",")">>

\* `local ${def.name}: ${def.name}Type`
LocalLine(def) == sLocal \o <<" ">> \o def.name \o <<":"," ">> \o def.name \o sType

\* `    ${def.name} = ${assignPath}\n`
AssignLine(def) == <<" "," "," "," ">> \o def.name \o <<" ","="," ">> \o AssignPath(def) \o <<"\n">>

\* vscode.TextEdit.insert(new vscode.Position(line, 0), text)
InsertEdit(line, text) == [line |-> line, character |-> 0, text |-> text]

\* the edit at topLine + 1: type alias and typed local
TopEdit(text, def) ==
  InsertEdit(TopLine(text) + 1, AliasLine(def) \o <<"\n">> \o LocalLine(def) \o <<"\n">>)

\* InitEdits with the assignment put on the anchor line itself, not below it
InitEdits_OnAnchorLine(text, def) ==
  IF InitLine(text) >= 0
  THEN <<InsertEdit(InitLine(text), AssignLine(def))>>
  ELSE <<>>

\* the edit at initLine + 1, when initLine >= 0: the assignment
InitEdits(text, def) ==
  IF InitLine(text) >= 0
  THEN <<InsertEdit(InitLine(text) + 1, AssignLine(def))>>
  ELSE <<>>

makeAdditionalEdits(document, position, def) ==
  LET text == SplitLines(GetText(document))
  IN  <<TopEdit(text, def)>> \o InitEdits(text, def)

(***************************************************************************)
(* createCompletionItem (item.documentation, a rendering of the same       *)
(* fields as item.detail, is left out)                                     *)
(***************************************************************************)
sAuto == <<"a","u","t","o",".">>
\* 5 is length of "auto."
AutoLength == 5

Max(a, b) == IF a >= b THEN a ELSE b

ItemDetail(def, isImported) ==
  sFramework \o <<".">> \o def.folder \o <<".">> \o def.subFolder \o <<".">> \o def.name
  \o (IF isImported THEN <<" ","(","a","l","r","e","a","d","y"," ","i","m","p","o","r","t","e","d",")">> ELSE <<>>)

\* new vscode.Range(position.line, Math.max(0, position.character - 5), position.line, position.character)
ItemRange(position) ==
  [ startLine      |-> position.line,
    startCharacter |-> Max(0, position.character - AutoLength),
    endLine        |-> position.line,
    endCharacter   |-> position.character ]

createCompletionItem(def, position, document) ==
  LET isImported == isServiceAlreadyImported(document, def.name)
  IN  [ label      |-> def.name,
        kind       |-> IF isImported THEN "Reference" ELSE "Class",
        detail     |-> ItemDetail(def, isImported),
        insertText |-> def.name,
        range      |-> ItemRange(position),
        sortText   |-> (IF isImported THEN <<"1">> ELSE <<"0">>) \o def.name,
        preselect  |-> ~isImported,
        filterText |-> sAuto \o ToLowerCase(def.name) ]

(***************************************************************************)
(* provideCompletionItems                                                  *)
(***************************************************************************)
\* where /auto\.(\w*)$/ can match prefix: "auto." followed by word characters
\* up to the end
AutoMatches(prefix) ==
  { i \in 1..Len(prefix) :
      /\ LitAt(prefix, i, sAuto)
      /\ \A k \in (i + Len(sAuto))..Len(prefix) : IsWordChar(prefix[k]) }

\* m[1] of prefix.match(/auto\.(\w*)$/), for the leftmost match
AutoGroup(prefix) == SubSeq(prefix, Min(AutoMatches(prefix)) + Len(sAuto), Len(prefix))

isClientFile(document) == Includes(document.fsPath, sClient)
isServerFile(document) == Includes(document.fsPath, sServer)

\* the file context that is logged
FileContext(document) ==
  IF isClientFile(document) THEN sClient
  ELSE IF isServerFile(document) THEN sServer
  ELSE sUnknown

\* SkippedByFolder with the Server test only for files that are not Client
\* files, as the logged file context has it
SkippedByFolder_ServerTestElse(document, def) ==
  \/ isClientFile(document) /\ def.folder # sClient
  \/ ~isClientFile(document) /\ isServerFile(document) /\ def.folder # sServer

\* SkippedByFolder without the test for Server files
SkippedByFolder_ClientTestOnly(document, def) ==
  isClientFile(document) /\ def.folder # sClient

\* the partition test of the loop: the entry is skipped
SkippedByFolder(document, def) ==
  \/ isClientFile(document) /\ def.folder # sClient
  \/ isServerFile(document) /\ def.folder # sServer

\* !query || serviceName.includes(query)
QueryMatches(query, def) == query = <<>> \/ Includes(ToLowerCase(def.name), query)

\* PushedItem with the edits attached whether or not the module is imported
PushedItem_AlwaysEdits(document, position, def) ==
  [ item |-> createCompletionItem(def, position, document),
    def  |-> def,
    additionalTextEdits |->
      [set |-> TRUE, edits |-> makeAdditionalEdits(document, position, def)] ]

\* the item pushed for def: additionalTextEdits only if not imported
\* (edits = "none" stands for the property left undefined)
PushedItem(document, position, def) ==
  LET item == createCompletionItem(def, position, document)
  IN  [ item |-> item,
        def  |-> def,
        additionalTextEdits |->
          IF ~isServiceAlreadyImported(document, def.name)
          THEN [set |-> TRUE, edits |-> makeAdditionalEdits(document, position, def)]
          ELSE [set |-> FALSE, edits |-> <<>>] ]

\* the loop over frameworkIndex
RECURSIVE CollectItems(_, _, _, _)
CollectItems(index, document, position, query) ==
  IF index = <<>> THEN <<>>
  ELSE (IF ~SkippedByFolder(document, Head(index)) /\ QueryMatches(query, Head(index))
        THEN <<PushedItem(document, position, Head(index))>>
        ELSE <<>>)
       \o CollectItems(Tail(index), document, position, query)

\* provideCompletionItems with the status bar message set for every empty
\* list, whatever the query
provideCompletionItems_NoticeOnEmpty(index, document, position) ==
  LET line == document.lines[position.line + 1]
      prefix == SubSeq(line, 1, position.character)
  IN  IF AutoMatches(prefix) = {}
      THEN [ returned |-> "undefined", query |-> <<>>, items |-> <<>>,
             statusBarMessage |-> FALSE ]
      ELSE LET query == ToLowerCase(AutoGroup(prefix))
               items == CollectItems(index, document, position, query)
           IN  [ returned |-> "items", query |-> query, items |-> items,
                 statusBarMessage |-> (Len(items) = 0) ]

\* what a call returns, with the status bar message it sets
provideCompletionItems(index, document, position) ==
  LET line == document.lines[position.line + 1]
      prefix == SubSeq(line, 1, position.character)
  IN  IF AutoMatches(prefix) = {}
      THEN [ returned |-> "undefined", query |-> <<>>, items |-> <<>>,
             statusBarMessage |-> FALSE ]
      ELSE LET query == ToLowerCase(AutoGroup(prefix))
               items == CollectItems(index, document, position, query)
           IN  [ returned |-> "items", query |-> query, items |-> items,
                 statusBarMessage |-> (Len(items) = 0 /\ Len(query) > 0) ]

(***************************************************************************)
(* State.                                                                  *)
(***************************************************************************)
VARIABLES
  \* the extension has been activated
  activated,
  \* the module registry
  frameworkIndex,
  \* one record per call of scanFramework, in call order:
  \*   state    "pending" (suspended in the await), "done" or "failed"
  \*   trigger  what made the call
  \*   pre      history: frameworkIndex when the call was made
  \*   solo     history: no other call was pending when this one was made
  \*   files    history: what the enumeration resolved to (<<>> until then)
  scans,
  \* the text document of the active editor (NoDocument: none is open)
  document,
  \* the completion request being answered: the position and what
  \* provideCompletionItems returns; NoRequest between requests
  response,
  \* history: the names of the candidates accepted into document, in order
  accepted

vars == <<activated, frameworkIndex, scans, document, response, accepted>>

NoDocument == [fsPath |-> <<>>, lines |-> <<>>]

NoRequest == [position |-> [line |-> -1, character |-> -1]]

Pending == {i \in DOMAIN scans : scans[i].state = "pending"}

Init ==
  /\ activated = FALSE
  /\ frameworkIndex = <<>>
  /\ scans = <<>>
  /\ document = NoDocument
  /\ response = NoRequest
  /\ accepted = <<>>

\* scanFramework up to its await: the registry is reset, the enumeration starts
ScanFrameworkCall(trigger) ==
  /\ Len(scans) < MaxScans
  /\ frameworkIndex' = <<>>
  /\ scans' = Append(scans, [ state   |-> "pending",
                              trigger |-> trigger,
                              pre     |-> frameworkIndex,
                              solo    |-> Pending = {},
                              files   |-> <<>> ])

\* activate: the first scan
Activate ==
  /\ ~activated
  /\ activated' = TRUE
  /\ ScanFrameworkCall("activate")
  /\ UNCHANGED <<document, response, accepted>>

\* onDidChangeWorkspaceFolders: rescan
WorkspaceFoldersChanged ==
  /\ activated
  /\ ScanFrameworkCall("onDidChangeWorkspaceFolders")
  /\ UNCHANGED <<activated, document, response, accepted>>

\* the command framework-completion.rescan
RescanCommand ==
  /\ activated
  /\ ScanFrameworkCall("framework-completion.rescan")
  /\ UNCHANGED <<activated, document, response, accepted>>

\* the enumeration of scan i resolves to files: the loop pushes onto the
\* registry as it is now
ScanResolve(i, files) ==
  /\ scans[i].state = "pending"
  /\ frameworkIndex' = frameworkIndex \o IndexFiles(files)
  /\ scans' = [scans EXCEPT ![i].state = "done", ![i].files = files]
  /\ UNCHANGED <<activated, document, response, accepted>>

\* the enumeration of scan i rejects: the call ends in the await
ScanReject(i) ==
  /\ scans[i].state = "pending"
  /\ scans' = [scans EXCEPT ![i].state = "failed"]
  /\ UNCHANGED <<activated, frameworkIndex, document, response, accepted>>

\* a completion request for the document at position: the provider runs to
\* its return against the registry as it is now
ProvideCompletionItems(position) ==
  /\ activated
  /\ document # NoDocument
  /\ response = NoRequest
  /\ response' = [ position |-> position,
                   result   |-> provideCompletionItems(frameworkIndex, document, position) ]
  /\ UNCHANGED <<activated, frameworkIndex, scans, document, accepted>>

\* the editor takes the returned items
ReturnItems ==
  /\ response # NoRequest
  /\ response' = NoRequest
  /\ UNCHANGED <<activated, frameworkIndex, scans, document, accepted>>

(***************************************************************************)
(* Spec: the registry under activation, rescans and their enumerations.    *)
(***************************************************************************)
Next ==
  \/ Activate
  \/ WorkspaceFoldersChanged
  \/ RescanCommand
  \/ \E i \in DOMAIN scans, files \in Enumerations : ScanResolve(i, files)
  \/ \E i \in DOMAIN scans : ScanReject(i)

Spec == Init /\ [][Next]_vars

(***************************************************************************)
(* SpecCompletion: completion requests in one open document against the    *)
(* registry left by the activation scan, for every enumeration it can have *)
(* resolved to.                                                            *)
(***************************************************************************)
InitCompletion ==
  /\ activated = TRUE
  /\ \E d \in DOMAIN Docs : document = Docs[d]
  /\ accepted = <<>>
  /\ \E files \in Enumerations :
       /\ frameworkIndex = IndexFiles(files)
       /\ scans = << [ state   |-> "done",
                       trigger |-> "activate",
                       pre     |-> <<>>,
                       solo    |-> TRUE,
                       files   |-> files ] >>
  /\ response = NoRequest

NextCompletion ==
  \/ \E position \in Positions(document) : ProvideCompletionItems(position)
  \/ ReturnItems

SpecCompletion == InitCompletion /\ [][NextCompletion]_vars

(***************************************************************************)
(* SpecAccept: the user accepts candidates. The editor applies the item:   *)
(* the text of item.range becomes item.insertText (createCompletionItem)   *)
(* and each vscode.TextEdit.insert of item.additionalTextEdits             *)
(* (makeAdditionalEdits) puts its text at its position. All positions are  *)
(* positions of the document the items were computed for.                  *)
(***************************************************************************)
\* the offset in the text of lines of the position (line, character), and the
\* end of the text for a position below the last line
OffsetAt(lines, line, character) ==
  IF line >= Len(lines) THEN Len(Join(lines, <<"\n">>))
  ELSE Len(Join(SubSeq(lines, 1, line) \o << <<>> >>, <<"\n">>))
       + Min({character, Len(lines[line + 1])})

\* item.range and item.insertText as a replacement in the text of lines
PrimaryEdit(lines, item) ==
  LET from == OffsetAt(lines, item.range.startLine, item.range.startCharacter)
      to   == OffsetAt(lines, item.range.endLine, item.range.endCharacter)
  IN  [offset |-> from, delete |-> to - from, text |-> item.insertText]

\* the insertions of additionalTextEdits, in the order of the array
SecondaryEdits(lines, edits) ==
  [ k \in DOMAIN edits |->
      [ offset |-> OffsetAt(lines, edits[k].line, edits[k].character),
        delete |-> 0,
        text   |-> edits[k].text ] ]

\* edits applied to text from the last offset to the first, so that every
\* offset is one of the text before the edits; of the edits at one offset
\* the later of the array is applied first, so their texts keep the order of
\* the array
RECURSIVE ApplyEdits(_, _)
ApplyEdits(text, edits) ==
  IF edits = <<>> THEN text
  ELSE LET k == CHOOSE k \in DOMAIN edits :
                  \A j \in DOMAIN edits :
                    \/ edits[j].offset < edits[k].offset
                    \/ edits[j].offset = edits[k].offset /\ j <= k
           e == edits[k]
           rest == SubSeq(edits, 1, k - 1) \o SubSeq(edits, k + 1, Len(edits))
       IN  ApplyEdits(SubSeq(text, 1, e.offset) \o e.text
                        \o SubSeq(text, e.offset + e.delete + 1, Len(text)),
                      rest)

\* the lines of the document after the pushed item is accepted: the
\* insertions, then the replacement of item.range
AcceptedLines(lines, pushed) ==
  Split(ApplyEdits(Join(lines, <<"\n">>),
                   SecondaryEdits(lines, pushed.additionalTextEdits.edits)
                     \o <<PrimaryEdit(lines, pushed.item)>>),
        "\n")

\* the user accepts candidate k of the list the provider returned
AcceptItem(k) ==
  /\ response # NoRequest
  /\ response.result.returned = "items"
  /\ k \in DOMAIN response.result.items
  /\ Len(accepted) < MaxAccepts
  /\ document' = [document EXCEPT
                    !.lines = AcceptedLines(document.lines, response.result.items[k])]
  /\ accepted' = Append(accepted,
                        [ name     |-> response.result.items[k].def.name,
                          inserted |-> response.result.items[k].additionalTextEdits.set ])
  /\ response' = NoRequest
  /\ UNCHANGED <<activated, frameworkIndex, scans>>

\* the user types the trigger on a new last line
TypeTrigger ==
  /\ document # NoDocument
  /\ response = NoRequest
  /\ accepted # <<>>
  /\ Len(accepted) < MaxAccepts
  /\ document.lines[Len(document.lines)] # sAuto
  /\ document' = [document EXCEPT !.lines = Append(document.lines, sAuto)]
  /\ UNCHANGED <<activated, frameworkIndex, scans, response, accepted>>

\* the cursor positions of the lines that hold the trigger text
TriggerLinePositions(doc) ==
  {p \in Positions(doc) : Includes(doc.lines[p.line + 1], sAuto)}

InitAccept == InitCompletion

NextAccept ==
  \/ \E position \in TriggerLinePositions(document) : ProvideCompletionItems(position)
  \/ ReturnItems
  \/ \E k \in 1..MaxFiles : AcceptItem(k)
  \/ TypeTrigger

SpecAccept == InitAccept /\ [][NextAccept]_vars

(***************************************************************************)
(* Properties.                                                             *)
(***************************************************************************)
\* the request in response was answered with a list of items
Answered == response # NoRequest /\ response.result.returned = "items"

Items == response.result.items

\* the lines of the requesting document
DocLines == document.lines

\* the directory segments of a path: all segments but the file name
DirSegments(uri) ==
  LET parts == Split(uri, pathSep[1])
  IN  {parts[i] : i \in 1..(Len(parts) - 1)}

\* scan i is the latest call of scanFramework and ran alone: no other call
\* was pending when it was made, and none was made since
RanAlone(i) == i = Len(scans) /\ scans[i].solo

\* C1: while a scan is pending, the registry still holds the snapshot it held
\* before that scan started (stated for a scan that no other scan overlaps)
C1_PendingScanKeepsSnapshot ==
  \A i \in Pending : RanAlone(i) => frameworkIndex = scans[i].pre

\* C2: after a scan whose enumeration rejected, the registry is what it was
\* immediately before that scan was started (stated for a scan that no other
\* scan overlaps)
C2_FailedScanChangesNothing ==
  \A i \in DOMAIN scans :
    (scans[i].state = "failed" /\ RanAlone(i)) => frameworkIndex = scans[i].pre

\* C3: a request from a document classified Client returns no candidate of
\* partition Server, and a request from a document classified Server returns
\* no candidate of partition Client
C3_NoCrossPartitionCandidate ==
  Answered =>
    \A k \in DOMAIN Items :
      /\ FileContext(document) = sClient => Items[k].def.folder # sServer
      /\ FileContext(document) = sServer => Items[k].def.folder # sClient

\* a Server document got candidates from a registry that also holds a Client
\* module matching the query
C3_Witness ==
  /\ Answered
  /\ FileContext(document) = sServer
  /\ Len(Items) > 0
  /\ \E i \in DOMAIN frameworkIndex :
       /\ frameworkIndex[i].folder = sClient
       /\ QueryMatches(response.result.query, frameworkIndex[i])

\* C4: the type-alias/local pair is inserted at line L+1 when the first
\* FrameworkObject anchor line is line L, and at line 0 when no line of the
\* document is a FrameworkObject anchor
C4_TopInsertionLine ==
  Answered =>
    \A k \in DOMAIN Items :
      Items[k].additionalTextEdits.set =>
        Items[k].additionalTextEdits.edits[1].line =
          (IF FrameworkObjectLines(DocLines) = {} THEN 0
           ELSE Min(FrameworkObjectLines(DocLines)) + 1)

\* the text an assignment insertion has to start with:
\* four spaces, then <name> = Framework[.<namespacePath>].<name>
ExpectedAssignment(def) ==
  <<" "," "," "," ">> \o def.name \o <<" ","="," ","F","r","a","m","e","w","o","r","k">>
  \o (IF def.subFolder = <<>> THEN <<>> ELSE <<".">> \o def.subFolder)
  \o <<".">> \o def.name

\* an edit that inserts an assignment from Framework
IsAssignmentInsertion(edit) == Includes(edit.text, <<"="," ","F","r","a","m","e","w","o","r","k",".">>)

\* an edit that inserts the type alias and the typed local of def
IsDeclarationInsertion(edit, def) ==
  /\ LitAt(edit.text, 1, <<"l","o","c","a","l"," ">> \o def.name \o <<"T","y","p","e"," ","="," ">>)
  /\ Includes(edit.text, <<"\n">> \o <<"l","o","c","a","l"," ">> \o def.name \o <<":"," ">> \o def.name \o <<"T","y","p","e">> \o <<"\n">>)

\* C5: when the first module.Init anchor line is line K, exactly one
\* assignment insertion is emitted, at (K+1, 0), and its text starts with
\* exactly four spaces followed by <name> = Framework[.<namespacePath>].<name>;
\* when no line is a module.Init anchor, no assignment insertion is emitted;
\* either way the declaration insertion is produced
C5_InitAssignment ==
  Answered =>
    \A k \in DOMAIN Items :
      LET edits == Items[k].additionalTextEdits.edits
          assignments == {j \in DOMAIN edits : IsAssignmentInsertion(edits[j])}
          inits == ModuleInitLines(DocLines)
      IN  Items[k].additionalTextEdits.set =>
            /\ inits # {} =>
                 /\ Cardinality(assignments) = 1
                 /\ \A j \in assignments :
                      /\ edits[j].line = Min(inits) + 1
                      /\ edits[j].character = 0
                      /\ LitAt(edits[j].text, 1, ExpectedAssignment(Items[k].def))
                      /\ edits[j].text[5] # " "
            /\ inits = {} => assignments = {}
            /\ \E j \in DOMAIN edits : IsDeclarationInsertion(edits[j], Items[k].def)

\* a module with a namespace path got its edits in a document whose
\* module.Init anchor is below the first line
C5_Witness ==
  /\ Answered
  /\ ModuleInitLines(DocLines) # {}
  /\ Min(ModuleInitLines(DocLines)) > 0
  /\ \E k \in DOMAIN Items :
       /\ Items[k].additionalTextEdits.set
       /\ Items[k].def.subFolder # <<>>
       /\ Len(Items[k].additionalTextEdits.edits) = 2

\* C6: the replacement range of every candidate ends at the cursor and
\* starts where the literal auto. begins: it spans 5 + length(q) characters
C6_RangeSpansTrigger ==
  Answered =>
    \A k \in DOMAIN Items :
      /\ Items[k].item.range.endLine = response.position.line
      /\ Items[k].item.range.endCharacter = response.position.character
      /\ Items[k].item.range.startLine = response.position.line
      /\ Items[k].item.range.startCharacter =
           response.position.character - (Len(sAuto) + Len(response.result.query))

\* C7: the import detector's answer fixes every flag of a candidate:
\* imported: sort key '1'+name, not preselected, no secondary edits;
\* not imported: sort key '0'+name, preselected, secondary edits attached and
\* not empty
C7_FlagsFollowImportDetector ==
  Answered =>
    \A k \in DOMAIN Items :
      LET name == Items[k].def.name
          edits == Items[k].additionalTextEdits
      IN  IF isServiceAlreadyImported(document, name)
          THEN /\ Items[k].item.sortText = <<"1">> \o name
               /\ ~Items[k].item.preselect
               /\ ~edits.set
          ELSE /\ Items[k].item.sortText = <<"0">> \o name
               /\ Items[k].item.preselect
               /\ edits.set
               /\ Len(edits.edits) > 0

\* one answer holds an imported and a not-imported candidate
C7_Witness ==
  /\ Answered
  /\ \E k \in DOMAIN Items : isServiceAlreadyImported(document, Items[k].def.name)
  /\ \E k \in DOMAIN Items : ~isServiceAlreadyImported(document, Items[k].def.name)

\* the definitions of the returned candidates, in order
RECURSIVE DefsOf(_)
DefsOf(items) == IF items = <<>> THEN <<>> ELSE <<Head(items).def>> \o DefsOf(Tail(items))

\* C8: among the registry entries whose partition is the document's, the
\* candidates are exactly those whose lowercased name contains the lowercased
\* query (all of them for an empty query), in registry order
C8_SubstringMatchInPartition ==
  Answered =>
    LET InPartition(def) == def.folder = FileContext(document)
        Expected(def) ==
          /\ InPartition(def)
          /\ \/ response.result.query = <<>>
             \/ Includes(ToLowerCase(def.name), ToLowerCase(response.result.query))
    IN  SelectSeq(DefsOf(Items), InPartition) = SelectSeq(frameworkIndex, Expected)

\* C9: an entry whose path has a directory segment named Server is recorded
\* Server, and one whose path has a directory segment named Client is
\* recorded Client
C9_PartitionFollowsMarkerSegment ==
  \A i \in DOMAIN frameworkIndex :
    /\ sServer \in DirSegments(frameworkIndex[i].uri) => frameworkIndex[i].folder = sServer
    /\ sClient \in DirSegments(frameworkIndex[i].uri) => frameworkIndex[i].folder = sClient

\* some line begins, after optional whitespace, with local <ident> and then
\* the annotation marker
DeclaredAtLineStart(lines, ident) ==
  \E l \in DOMAIN lines :
    DeclarationAt(lines[l], SkipSpace(lines[l], 1), ident)

\* C10: a module is classified imported if and only if some line of the
\* document begins, after optional leading whitespace, with local <name>Type
\* or local <name> followed by the annotation marker
C10_ImportedIffDeclaredAtLineStart ==
  Answered =>
    \A k \in DOMAIN Items :
      (Items[k].item.kind = "Reference") <=>
        \/ DeclaredAtLineStart(DocLines, Items[k].def.name \o sType)
        \/ DeclaredAtLineStart(DocLines, Items[k].def.name)

\* the base name matches [SC]_*.lua
MatchesNamingConvention(fullName) ==
  /\ Len(fullName) >= 2 + Len(sLuaExt)
  /\ fullName[1] \in {"S", "C"}
  /\ fullName[2] = "_"
  /\ SubSeq(fullName, Len(fullName) - Len(sLuaExt) + 1, Len(fullName)) = sLuaExt

\* C11: the name of an entry whose base name matches [SC]_*.lua is the base
\* name without its first two characters and without the extension .lua
C11_NameIsStrippedBaseName ==
  \A i \in DOMAIN frameworkIndex :
    MatchesNamingConvention(frameworkIndex[i].fullName) =>
      frameworkIndex[i].name =
        SubSeq(frameworkIndex[i].fullName, 3,
               Len(frameworkIndex[i].fullName) - Len(sLuaExt))

\* the lengths q for which prefix ends in auto. followed by q identifier
\* characters
TriggerQueryLengths(prefix) ==
  { q \in 0..Len(prefix) :
      /\ \A k \in (Len(prefix) - q + 1)..Len(prefix) : IsWordChar(prefix[k])
      /\ LitAt(prefix, Len(prefix) - q - Len(sAuto) + 1, sAuto) }

\* C12: a request whose cursor prefix does not end in auto.<identifier
\* characters> returns no candidates and sets no notice; one whose prefix
\* does sets the notice if and only if the list is empty and the query is
\* not; the registry is the same after the request as before
C12_NoticeOnlyForUnmatchedQuery ==
  [][ (response = NoRequest /\ response' # NoRequest) =>
        LET line == document.lines[response'.position.line + 1]
            prefix == SubSeq(line, 1, response'.position.character)
            result == response'.result
        IN  /\ frameworkIndex' = frameworkIndex
            /\ TriggerQueryLengths(prefix) = {} =>
                 /\ result.returned = "undefined"
                 /\ result.items = <<>>
                 /\ ~result.statusBarMessage
            /\ TriggerQueryLengths(prefix) # {} =>
                 /\ result.returned = "items"
                 /\ result.statusBarMessage <=>
                      (result.items = <<>> /\ TriggerQueryLengths(prefix) # {0})
    ]_vars

\* a request with a query that no module of a non-empty registry matches
\* set the notice
C12_Witness ==
  /\ Answered
  /\ response.result.statusBarMessage
  /\ frameworkIndex # <<>>

\* some line of lines is, after optional whitespace, the type alias
\* local <name>Type = ...
HasAliasLine(lines, name) ==
  \E l \in DOMAIN lines :
    LitAt(lines[l], SkipSpace(lines[l], 1), <<"l","o","c","a","l"," ">> \o name \o <<"T","y","p","e"," ","=">>)

\* some line of lines is, after optional whitespace, the assignment
\* <name> = Framework...
HasAssignmentLine(lines, name) ==
  \E l \in DOMAIN lines :
    LitAt(lines[l], SkipSpace(lines[l], 1), name \o <<" ","="," ","F","r","a","m","e","w","o","r","k">>)

\* the lines that a list of edits inserts
RECURSIVE InsertedLines(_)
InsertedLines(edits) ==
  IF edits = <<>> THEN <<>>
  ELSE Split(Head(edits).text, "\n") \o InsertedLines(Tail(edits))

\* C13: for a document that already contains the type alias line or the
\* Init assignment of the chosen module, the edits do not insert that
\* construct again
C13_NoSecondInsertion ==
  Answered =>
    \A k \in DOMAIN Items :
      LET name == Items[k].def.name
          inserted == InsertedLines(Items[k].additionalTextEdits.edits)
      IN  /\ HasAliasLine(DocLines, name) => ~HasAliasLine(inserted, name)
          /\ HasAssignmentLine(DocLines, name) => ~HasAssignmentLine(inserted, name)

\* C14: when the module.Init anchor line is not the FrameworkObject anchor
\* line (also when there is no FrameworkObject anchor line), the declaration
\* insertion and the assignment insertion are at different lines
C14_InsertionsAtDifferentLines ==
  Answered =>
    \A k \in DOMAIN Items :
      LET edits == Items[k].additionalTextEdits.edits
      IN  ( /\ Len(edits) = 2
            /\ ModuleInitLines(DocLines) # {}
            /\ \/ FrameworkObjectLines(DocLines) = {}
               \/ Min(FrameworkObjectLines(DocLines)) # Min(ModuleInitLines(DocLines)) )
          => edits[1].line # edits[2].line

\* the paths of the entries of a registry, in order
Uris(index) == [k \in DOMAIN index |-> index[k].uri]

\* C15: a scan that completes leaves in the registry exactly one entry per
\* file of its own enumeration result, in order, and no entry of another scan
C15_CompletedScanOverwrites ==
  [][ \A i \in DOMAIN scans :
        (i \in DOMAIN scans' /\ scans[i].state = "pending" /\ scans'[i].state = "done")
          => Uris(frameworkIndex') = scans'[i].files ]_vars

\* C16: no two entries of the registry have the same name, partition and
\* namespace path
C16_UniqueTriple ==
  \A i, j \in DOMAIN frameworkIndex :
    ( /\ frameworkIndex[i].name = frameworkIndex[j].name
      /\ frameworkIndex[i].folder = frameworkIndex[j].folder
      /\ frameworkIndex[i].subFolder = frameworkIndex[j].subFolder ) => i = j

\* C17: every candidate has the partition of the requesting document, so a
\* document that is neither Client nor Server gets no candidate
C17_CandidatesOfDocumentPartition ==
  Answered =>
    \A k \in DOMAIN Items : Items[k].def.folder = FileContext(document)

\* the path of a file relative to the workspace folder it lies in, as
\* segments: src, the partition directory, the directories below it, the file
RelativeParts(uri) ==
  LET folder == CHOOSE f \in WorkspaceFolders : LitAt(uri, 1, f \o pathSep)
  IN  Split(SubSeq(uri, Len(folder) + 2, Len(uri)), pathSep[1])

\* C18: the namespace path of an entry is the dot-joined sequence of the
\* segments strictly between the partition directory, src/Client or
\* src/Server of the workspace folder, and the file
C18_NamespaceBelowPartitionDirectory ==
  \A i \in DOMAIN frameworkIndex :
    LET rel == RelativeParts(frameworkIndex[i].uri)
    IN  frameworkIndex[i].subFolder = Join(SubSeq(rel, 3, Len(rel) - 1), <<".">>)

\* the acceptances of name that inserted the edits synthesized for it
InsertionsOf(name) ==
  {i \in DOMAIN accepted : accepted[i].name = name /\ accepted[i].inserted}

\* C19: once the edits synthesized for a module that was not detected as
\* imported have been applied to the document, the import detector finds the
\* module in the document, every later list returns the module as already
\* imported and without secondary edits, and of all the acceptances of the
\* module at most one has inserted the declaration pair
C19_InsertedModuleIsDetected ==
  /\ \A i \in DOMAIN accepted :
       accepted[i].inserted => isServiceAlreadyImported(document, accepted[i].name)
  /\ Answered =>
       \A k \in DOMAIN Items :
         InsertionsOf(Items[k].def.name) # {} =>
           /\ Items[k].item.kind = "Reference"
           /\ ~Items[k].additionalTextEdits.set
  /\ \A i \in DOMAIN accepted : Cardinality(InsertionsOf(accepted[i].name)) <= 1

=============================================================================
